---------------------------- MODULE Spec2Model ----------------------------
(***************************************************************************)
(* A model of website/myphillyrising/views.py: the view mixin (user and    *)
(* neighborhood querysets, the Disqus single-sign-on string), the app      *)
(* shell, the neighborhood-choice form, the sitemap and the two REST       *)
(* viewsets (users, actions).                                              *)
(*                                                                         *)
(* Text is a sequence of character codes (ASCII).  The database is the     *)
(* three variables users / profile / actions; the caller's session is      *)
(* request_user (the logged-in user or AnonymousUser) and session (the     *)
(* session keys).  Every request handler is one action; what it returned   *)
(* is kept in response.                                                    *)
(***************************************************************************)
EXTENDS Integers, Sequences, FiniteSets, TLC

VARIABLES
    users,          \* the stored User rows (a set of primary keys)
    profile,        \* pk -> the neighborhood tag of the user's UserProfile, or NoProfile
    actions,        \* the stored UserAction rows
    request_user,   \* request.user of the caller's session
    session,        \* request.session: the keys neighborhood and auth_provider
    clock,          \* time.time(), in ticks of 1/TicksPerSecond second
    response        \* what the last request returned

vars == <<users, profile, actions, request_user, session, clock, response>>

---------------------------------------------------------------------------
(* Bounds of the model. *)

MaxUsers == 2
MaxNeighborhoods == 2
MaxActions == 2
MaxTicks == 2

(* Program constants. *)

\* "only use those that are in the last 30 days"
WindowDays == 30
\* paginate_by = 20
PaginateBy == 20
\* time.time() is a float; the model's clock counts half seconds
TicksPerSecond == 2
\* the clock's first reading, in seconds since the epoch
Epoch == 1000000000

UserIds == 1..MaxUsers
NeighborhoodTags == 1..MaxNeighborhoods
ActionIds == 1..MaxActions

AnonymousUser == 0
NoProfile == 0
None == 0

---------------------------------------------------------------------------
(* Text. *)

Space == <<32>>
Quote == <<34>>

RECURSIVE Digits(_)
\* str(n) of a non-negative integer
Digits(n) == IF n < 10 THEN <<48 + n>> ELSE Digits(n \div 10) \o <<48 + (n % 10)>>

str(n) == Digits(n)

RECURSIVE Join(_, _)
\* sep.join(parts)
Join(sep, parts) ==
    IF parts = <<>> THEN <<>>
    ELSE IF Len(parts) = 1 THEN parts[1]
    ELSE parts[1] \o sep \o Join(sep, Tail(parts))

RECURSIVE OrderBy(_)
\* the elements of a set of integers in ascending order
OrderBy(S) ==
    IF S = {} THEN <<>>
    ELSE LET m == CHOOSE x \in S : \A y \in S : x <= y
         IN  <<m>> \o OrderBy(S \ {m})

\* s.split(' '): the fields of s between its spaces
Split(s) ==
    LET at == OrderBy({i \in 1..Len(s) : s[i] = 32})
        from(k) == IF k = 1 THEN 1 ELSE at[k - 1] + 1
        to(k) == IF k > Len(at) THEN Len(s) ELSE at[k] - 1
    IN  [k \in 1..(Len(at) + 1) |-> SubSeq(s, from(k), to(k))]

---------------------------------------------------------------------------
(* base64.b64encode / b64decode (RFC 3548, '=' padding). *)

B64Alphabet ==
    <<65, 66, 67, 68, 69, 70, 71, 72, 73, 74, 75, 76, 77, 78, 79, 80, 81, 82,
      83, 84, 85, 86, 87, 88, 89, 90, 97, 98, 99, 100, 101, 102, 103, 104,
      105, 106, 107, 108, 109, 110, 111, 112, 113, 114, 115, 116, 117, 118,
      119, 120, 121, 122, 48, 49, 50, 51, 52, 53, 54, 55, 56, 57, 43, 47>>

B64Pad == <<61>>

B64Char(v) == B64Alphabet[v + 1]

B64Value(c) == (CHOOSE i \in 1..64 : B64Alphabet[i] = c) - 1

\* the byte at position i, 0 past the end (the zero bits of a short group)
ByteAt(s, i) == IF i <= Len(s) THEN s[i] ELSE 0

\* the k-th (0..3) character of the group that encodes s[i], s[i+1], s[i+2]
B64GroupChar(s, i, k) ==
    IF k = 0 THEN B64Char(s[i] \div 4)
    ELSE IF k = 1 THEN B64Char((s[i] % 4) * 16 + ByteAt(s, i + 1) \div 16)
    ELSE IF k = 2 THEN
        IF i + 1 > Len(s) THEN 61
        ELSE B64Char((s[i + 1] % 16) * 4 + ByteAt(s, i + 2) \div 64)
    ELSE IF i + 2 > Len(s) THEN 61 ELSE B64Char(s[i + 2] % 64)

b64encode(s) ==
    [j \in 1..(4 * ((Len(s) + 2) \div 3)) |->
        B64GroupChar(s, 3 * ((j - 1) \div 4) + 1, (j - 1) % 4)]

\* the number of '=' that end m
B64Padding(m) ==
    IF Len(m) = 0 \/ m[Len(m)] # 61 THEN 0
    ELSE IF m[Len(m) - 1] # 61 THEN 1 ELSE 2

\* the k-th (0..2) byte of the group m[i..i+3]
B64GroupByte(m, i, k) ==
    IF k = 0 THEN B64Value(m[i]) * 4 + B64Value(m[i + 1]) \div 16
    ELSE IF k = 1 THEN (B64Value(m[i + 1]) % 16) * 16 + B64Value(m[i + 2]) \div 4
    ELSE (B64Value(m[i + 2]) % 4) * 64 + B64Value(m[i + 3])

b64decode(m) ==
    [j \in 1..(3 * (Len(m) \div 4) - B64Padding(m)) |->
        B64GroupByte(m, 4 * ((j - 1) \div 3) + 1, (j - 1) % 3)]

---------------------------------------------------------------------------
(* json.dumps of a flat dict of strings.  A dict is a set of <<key, value>> *)
(* pairs with distinct keys; the keys are written in the order of KeyOrder. *)

KeyOrder == <<"id", "username", "email", "avatar", "avatar_url">>

KeyChars(k) ==
    CASE k = "id" -> <<105, 100>>
      [] k = "username" -> <<117, 115, 101, 114, 110, 97, 109, 101>>
      [] k = "email" -> <<101, 109, 97, 105, 108>>
      [] k = "avatar" -> <<97, 118, 97, 116, 97, 114>>
      [] k = "avatar_url" -> <<97, 118, 97, 116, 97, 114, 95, 117, 114, 108>>

Keys(data) == {kv[1] : kv \in data}

Value(data, k) == (CHOOSE kv \in data : kv[1] = k)[2]

RECURSIVE JsonItems(_, _)
\* the '"key": "value"' items of the dict, for the keys KeyOrder[i..]
JsonItems(data, i) ==
    IF i > Len(KeyOrder) THEN <<>>
    ELSE IF KeyOrder[i] \in Keys(data) THEN
        <<Quote \o KeyChars(KeyOrder[i]) \o <<34, 58, 32, 34>>
          \o Value(data, KeyOrder[i]) \o Quote>> \o JsonItems(data, i + 1)
    ELSE JsonItems(data, i + 1)

json_dumps(data) == <<123>> \o Join(<<44, 32>>, JsonItems(data, 1)) \o <<125>>

---------------------------------------------------------------------------
(* hmac.HMAC(key, msg, hashlib.sha1).hexdigest().  SHA-1 is stood in for by *)
(* a 16-bit positional checksum;  the HMAC construction (an inner and an    *)
(* outer keyed hash) and the lower-case hex rendering are kept.            *)

HexDigits == <<48, 49, 50, 51, 52, 53, 54, 55, 56, 57, 97, 98, 99, 100, 101, 102>>

RECURSIVE HashRange(_, _, _)
\* the checksum of s[lo..hi]: every byte weighted by its position
HashRange(s, lo, hi) ==
    IF lo > hi THEN 0
    ELSE IF lo = hi THEN ((lo * lo + 31 * lo + 7) * s[lo]) % 65536
    ELSE LET mid == (lo + hi) \div 2
         IN  (HashRange(s, lo, mid) + HashRange(s, mid + 1, hi)) % 65536

Hash(s) == (5381 + 33 * Len(s) + HashRange(s, 1, Len(s))) % 65536

HashBytes(h) == <<h \div 256, h % 256>>

Hex(h) ==
    <<HexDigits[(h \div 4096) + 1], HexDigits[((h \div 256) % 16) + 1],
      HexDigits[((h \div 16) % 16) + 1], HexDigits[(h % 16) + 1]>>

hmac_hexdigest(key, msg) ==
    Hex(Hash(key \o <<92>> \o HashBytes(Hash(key \o <<54>> \o msg))))

---------------------------------------------------------------------------
(* settings *)

\* settings.DISQUS_ACCOUNT_UNIQUIFIER: "-mpr"
DISQUS_ACCOUNT_UNIQUIFIER == <<45, 109, 112, 114>>
\* settings.DISQUS_SECRET_KEY: "s3cr3t"
DISQUS_SECRET_KEY == <<115, 51, 99, 114, 51, 116>>

(* The columns of a User row and of its profile, as the fixture gives them: *)
(* username "u<pk>", email "u<pk>@x.io", avatar_url "http://img/<pk>.png".  *)

username(u) == <<117>> \o str(u)
email(u) == <<117>> \o str(u) \o <<64, 120, 46, 105, 111>>
avatar_url(u) == <<104, 116, 116, 112, 58, 47, 47, 105, 109, 103, 47>> \o str(u) \o <<46, 112, 110, 103>>

---------------------------------------------------------------------------
(* The database, as the ORM shows it. *)

is_authenticated(user) == user # AnonymousUser

\* user.profile raises UserProfile.DoesNotExist exactly when this is false
HasProfile(u) == profile[u] # NoProfile

\* user.actions.all()
UserActions(u) == {a \in actions : a.user = u}

\* one row of the user listing: the user, its profile and the profile's
\* neighborhood (select_related), its actions (prefetch_related)
UserRow(u) ==
    [pk |-> u,
     profile |-> [neighborhood |-> profile[u], avatar_url |-> avatar_url(u)],
     actions |-> UserActions(u)]

---------------------------------------------------------------------------
(* MyPhillyRisingViewMixin *)

\* get_user_queryset without .exclude(profile__isnull=True)
get_user_queryset_no_exclude == {UserRow(u) : u \in users}

\* Neighbor.objects.all() with the users lacking a profile excluded
get_user_queryset == {UserRow(u) : u \in {v \in users : HasProfile(v)}}

\* one neighborhood with its prefetched profiles, each profile's user and
\* each user's actions
NeighborhoodRow(tag) ==
    [tag |-> tag,
     profiles |-> {[user |-> [pk |-> u, actions |-> UserActions(u)]] :
                      u \in {v \in users : profile[v] = tag}}]

\* Neighborhood.objects.all().prefetch_related(...).order_by('tag')
get_neighborhood_queryset ==
    LET tags == OrderBy(NeighborhoodTags)
    IN  [i \in 1..Len(tags) |-> NeighborhoodRow(tags[i])]

\* the dict without the uniquifier appended to the id
disqus_sso_data_plain_id(user) ==
    IF is_authenticated(user) /\ HasProfile(user) THEN
        {<<"id", str(user)>>,
         <<"username", username(user)>>,
         <<"email", email(user)>>,
         <<"avatar", avatar_url(user)>>}
    ELSE {}

\* the dict that get_disqus_sso_message serializes
disqus_sso_data(user) ==
    IF is_authenticated(user) THEN
        IF HasProfile(user) THEN
            {<<"id", str(user) \o DISQUS_ACCOUNT_UNIQUIFIER>>,
             <<"username", username(user)>>,
             <<"email", email(user)>>,
             <<"avatar", avatar_url(user)>>}
        ELSE {}
    ELSE {}

\* the except branch without its logout(self.request)
disqus_sso_logout_never(user) == FALSE

\* whether get_disqus_sso_message calls logout(self.request)
disqus_sso_logout(user) == is_authenticated(user) /\ ~HasProfile(user)

get_disqus_sso_message(user) == b64encode(json_dumps(disqus_sso_data(user)))

\* int(time.time())
get_disqus_sso_timestamp == clock \div TicksPerSecond

\* the signature taken over the message alone
get_disqus_sso_signature_message_only(message, timestamp) ==
    hmac_hexdigest(DISQUS_SECRET_KEY, message)

get_disqus_sso_signature(message, timestamp) ==
    hmac_hexdigest(DISQUS_SECRET_KEY, message \o Space \o str(timestamp))

get_disqus_sso_auth_string(user) ==
    LET message == get_disqus_sso_message(user)
        timestamp == get_disqus_sso_timestamp
        signature == get_disqus_sso_signature(message, timestamp)
    IN  Join(Space, <<message, signature, str(timestamp)>>)

\* django.contrib.auth.logout: the session is flushed and request.user
\* becomes the anonymous user
EmptySession == [neighborhood |-> None, auth_provider |-> ""]

---------------------------------------------------------------------------
(* Responses.  A serialized object is the set holding one (serializer,     *)
(* instance) pair; the empty dict {} is the empty set.                     *)

Serialize(serializer, instance) == {[serializer |-> serializer, instance |-> instance]}

NoResponse ==
    [view |-> "none", method |-> "GET", status |-> 0,
     user |-> AnonymousUser, time |-> 0,
     neighborhood_data |-> {}, current_user_data |-> {},
     disqus_sso_auth |-> <<>>, disqus_sso_data |-> {},
     auth_provider |-> "", form |-> [neighborhood |-> None, auth_provider |-> ""],
     self_auth_provider |-> "", redirect |-> <<"", "">>, form_errors |-> FALSE,
     serializer |-> "", pk |-> 0, params |-> <<>>, results |-> {}, db_before |-> <<>>]

Respond(view, method, status) ==
    [NoResponse EXCEPT !.view = view, !.method = method, !.status = status,
                       !.user = request_user, !.time = clock \div TicksPerSecond]

---------------------------------------------------------------------------
(* AppView *)

\* NeighborhoodSerializer(self.get_neighborhood_queryset()).data
get_neighborhood_data == Serialize("NeighborhoodSerializer", get_neighborhood_queryset)

\* queryset.get(pk=pk): the matching rows (none: DoesNotExist is raised)
QuerysetGet(queryset, pk) == {r \in queryset : r.pk = pk}

\* whether AppView.get_current_user_data raises
current_user_data_raises(current_user) ==
    /\ is_authenticated(current_user)
    /\ HasProfile(current_user)
    /\ QuerysetGet(get_user_queryset, current_user) = {}

\* the current user serialized with the public serializer
get_current_user_data_public(current_user) ==
    IF is_authenticated(current_user) /\ HasProfile(current_user) THEN
        {[serializer |-> "UserSerializer", instance |-> r] :
            r \in QuerysetGet(get_user_queryset, current_user)}
    ELSE {}

get_current_user_data(current_user) ==
    IF is_authenticated(current_user) THEN
        IF ~HasProfile(current_user) THEN {}
        ELSE {[serializer |-> "LoggedInUserSerializer", instance |-> r] :
                 r \in QuerysetGet(get_user_queryset, current_user)}
    ELSE {}

\* GET /: AppView.get_context_data
AppViewGet ==
    LET user == request_user IN
    IF current_user_data_raises(user) THEN
        /\ response' = Respond("app", "GET", 500)
        /\ UNCHANGED <<users, profile, actions, request_user, session, clock>>
    ELSE
        /\ response' = [Respond("app", "GET", 200) EXCEPT
                !.neighborhood_data = get_neighborhood_data,
                !.current_user_data = get_current_user_data(user),
                !.disqus_sso_data = disqus_sso_data(user),
                !.disqus_sso_auth = get_disqus_sso_auth_string(user)]
        /\ request_user' = IF disqus_sso_logout(user) THEN AnonymousUser ELSE request_user
        /\ session' = IF disqus_sso_logout(user) THEN EmptySession ELSE session
        /\ UNCHANGED <<users, profile, actions, clock>>

---------------------------------------------------------------------------
(* SiteMapView *)

\* GET /sitemap.xml: SiteMapView.get_context_data
SiteMapViewGet ==
    /\ response' = [Respond("sitemap", "GET", 200) EXCEPT
            !.neighborhood_data = get_neighborhood_data]
    /\ UNCHANGED <<users, profile, actions, request_user, session, clock>>

---------------------------------------------------------------------------
(* ChooseNeighborhoodView *)

Providers == {"twitter", "facebook", "google-oauth2"}

\* ChooseNeighborhoodForm.is_valid(): both fields are required, and the
\* neighborhood must be a stored one
form_is_valid(neighborhood, auth_provider) ==
    neighborhood \in NeighborhoodTags /\ auth_provider \in Providers

\* context['auth_provider']: request.GET.get(...) or request.session.get(...)
context_auth_provider(query) ==
    IF query # "" THEN query ELSE session.auth_provider

\* the redirect built from the provider kept in the session
get_success_url_from_session(auth_provider) ==
    <<"socialauth_complete", session.auth_provider>>

\* reverse('socialauth_complete', args=(self.auth_provider,))
get_success_url(auth_provider) == <<"socialauth_complete", auth_provider>>

\* GET /choose-neighborhood: ChooseNeighborhoodView.get_context_data
ChooseNeighborhoodGet(query) ==
    /\ response' = [Respond("choose", "GET", 200) EXCEPT
            !.auth_provider = context_auth_provider(query),
            !.results = NeighborhoodTags]
    /\ UNCHANGED <<users, profile, actions, request_user, session, clock>>

\* what form_valid leaves in request.session
form_valid_session(neighborhood, auth_provider) ==
    [session EXCEPT !.neighborhood = neighborhood]

\* POST /choose-neighborhood: FormView.post, then form_valid (and the
\* redirect to get_success_url) or form_invalid (the form rendered again)
ChooseNeighborhoodPost(neighborhood, auth_provider, query) ==
    LET posted == [Respond("choose", "POST", 200) EXCEPT
                      !.form = [neighborhood |-> neighborhood, auth_provider |-> auth_provider],
                      !.db_before = <<session>>]
    IN
    IF form_is_valid(neighborhood, auth_provider) THEN
        /\ session' = form_valid_session(neighborhood, auth_provider)
        /\ response' = [posted EXCEPT
                !.status = 302,
                !.self_auth_provider = auth_provider,
                !.redirect = get_success_url(auth_provider)]
        /\ UNCHANGED <<users, profile, actions, request_user, clock>>
    ELSE
        /\ response' = [posted EXCEPT
                !.form_errors = TRUE,
                !.auth_provider = context_auth_provider(query),
                !.results = NeighborhoodTags]
        /\ UNCHANGED <<users, profile, actions, request_user, session, clock>>

---------------------------------------------------------------------------
(* The REST viewsets.  permission_classes = (IsAuthenticatedOrReadOnly,)   *)

SAFE_METHODS == {"GET", "HEAD", "OPTIONS"}

WriteMethods == {"POST", "PUT", "PATCH", "DELETE"}

\* permission_classes left at AllowAny
has_permission_allow_any(method, user) == TRUE

\* IsAuthenticatedOrReadOnly.has_permission
has_permission(method, user) == method \in SAFE_METHODS \/ is_authenticated(user)

Range(s) == {s[i] : i \in DOMAIN s}

\* the filter on request.GET.get('neighborhood'), the last value only
get_queryset_last_only(neighborhoods) ==
    IF neighborhoods # <<>> THEN
        {r \in get_user_queryset : r.profile.neighborhood = neighborhoods[Len(neighborhoods)]}
    ELSE get_user_queryset

\* UserViewSet.get_queryset; neighborhoods is request.GET.getlist('neighborhood')
get_queryset(neighborhoods) ==
    IF neighborhoods # <<>> THEN
        {r \in get_user_queryset : r.profile.neighborhood \in Range(neighborhoods)}
    ELSE get_user_queryset

\* the self serializer for every authenticated caller
get_serializer_class_any_authenticated(object, user) ==
    IF object # None /\ is_authenticated(user) THEN "LoggedInUserSerializer"
    ELSE "UserSerializer"

\* UserViewSet.get_serializer_class; object is the pk of self.object, None
\* when the attribute is unset or None
get_serializer_class(object, user) ==
    IF object # None /\ object = user THEN "LoggedInUserSerializer"
    ELSE "UserSerializer"

\* one page of a listing (paginate_by)
Paginate(queryset) ==
    IF Cardinality(queryset) <= PaginateBy THEN queryset
    ELSE CHOOSE page \in SUBSET queryset : Cardinality(page) = PaginateBy

DB == <<users, profile, actions>>

ApiRespond(view, method, status) ==
    [Respond(view, method, status) EXCEPT !.db_before = DB]

\* the request is refused before the handler runs
PermissionDenied(view, method) ==
    /\ ~has_permission(method, request_user)
    /\ response' = ApiRespond(view, method, 403)
    /\ UNCHANGED <<users, profile, actions, request_user, session, clock>>

\* GET /api/users
UsersList(neighborhoods) ==
    /\ response' =
            IF ~has_permission("GET", request_user) THEN ApiRespond("users", "GET", 403)
            ELSE [ApiRespond("users", "GET", 200) EXCEPT
                    !.params = neighborhoods,
                    !.results = Paginate(get_queryset(neighborhoods)),
                    !.serializer = get_serializer_class(None, request_user)]
    /\ UNCHANGED <<users, profile, actions, request_user, session, clock>>

\* GET /api/users/<pk>
UsersRetrieve(pk, neighborhoods) ==
    /\ LET found == QuerysetGet(get_queryset(neighborhoods), pk) IN
       response' =
            IF ~has_permission("GET", request_user) THEN ApiRespond("users", "GET", 403)
            ELSE IF found = {} THEN
                [ApiRespond("users", "GET", 404) EXCEPT !.pk = pk, !.params = neighborhoods]
            ELSE [ApiRespond("users", "GET", 200) EXCEPT
                    !.pk = pk, !.params = neighborhoods, !.results = found,
                    !.serializer = get_serializer_class(pk, request_user)]
    /\ UNCHANGED <<users, profile, actions, request_user, session, clock>>

\* POST /api/users: a row is inserted; the serializer is built before
\* self.object is set
UsersCreate ==
    \/ PermissionDenied("users", "POST")
    \/ /\ has_permission("POST", request_user)
       /\ \E pk \in UserIds \ users :
            /\ users' = users \cup {pk}
            /\ response' = [ApiRespond("users", "POST", 201) EXCEPT
                    !.pk = pk,
                    !.serializer = get_serializer_class(None, request_user)]
       /\ UNCHANGED <<profile, actions, request_user, session, clock>>

\* PUT and PATCH /api/users/<pk>: the row of the listing is saved; PUT of a
\* pk that is not in the listing inserts it (and fails on a stored pk)
UsersUpdate(method, pk) ==
    \/ PermissionDenied("users", method)
    \/ /\ has_permission(method, request_user)
       /\ LET found == QuerysetGet(get_queryset(<<>>), pk) IN
          IF found # {} THEN
              /\ response' = [ApiRespond("users", method, 200) EXCEPT
                      !.pk = pk, !.results = found,
                      !.serializer = get_serializer_class(pk, request_user)]
              /\ UNCHANGED users
          ELSE IF method = "PUT" /\ pk \notin users THEN
              /\ users' = users \cup {pk}
              /\ response' = [ApiRespond("users", method, 201) EXCEPT
                      !.pk = pk,
                      !.serializer = get_serializer_class(None, request_user)]
          ELSE
              /\ response' = [ApiRespond("users", method, IF method = "PUT" THEN 500 ELSE 404)
                                 EXCEPT !.pk = pk]
              /\ UNCHANGED users
       /\ UNCHANGED <<profile, actions, request_user, session, clock>>

\* DELETE /api/users/<pk>: the row goes, and with it its profile and its
\* actions; a session of the deleted user is anonymous from then on
UsersDestroy(pk) ==
    \/ PermissionDenied("users", "DELETE")
    \/ /\ has_permission("DELETE", request_user)
       /\ IF QuerysetGet(get_queryset(<<>>), pk) = {} THEN
              /\ response' = [ApiRespond("users", "DELETE", 404) EXCEPT !.pk = pk]
              /\ UNCHANGED <<users, profile, actions, request_user>>
          ELSE
              /\ users' = users \ {pk}
              /\ profile' = [profile EXCEPT ![pk] = NoProfile]
              /\ actions' = {a \in actions : a.user # pk}
              /\ request_user' = IF request_user = pk THEN AnonymousUser ELSE request_user
              /\ response' = [ApiRespond("users", "DELETE", 204) EXCEPT !.pk = pk]
       /\ UNCHANGED <<session, clock>>

ActionPks == {a.id : a \in actions}

ActionGet(pk) == {a \in actions : a.id = pk}

\* GET /api/actions
ActionsList ==
    /\ response' =
            IF ~has_permission("GET", request_user) THEN ApiRespond("actions", "GET", 403)
            ELSE [ApiRespond("actions", "GET", 200) EXCEPT
                    !.results = Paginate(actions), !.serializer = "ActionSerializer"]
    /\ UNCHANGED <<users, profile, actions, request_user, session, clock>>

\* GET /api/actions/<pk>
ActionsRetrieve(pk) ==
    /\ response' =
            IF ~has_permission("GET", request_user) THEN ApiRespond("actions", "GET", 403)
            ELSE IF ActionGet(pk) = {} THEN
                [ApiRespond("actions", "GET", 404) EXCEPT !.pk = pk]
            ELSE [ApiRespond("actions", "GET", 200) EXCEPT
                    !.pk = pk, !.results = ActionGet(pk), !.serializer = "ActionSerializer"]
    /\ UNCHANGED <<users, profile, actions, request_user, session, clock>>

\* POST /api/actions
ActionsCreate(user) ==
    \/ PermissionDenied("actions", "POST")
    \/ /\ has_permission("POST", request_user)
       /\ user \in users
       /\ \E pk \in ActionIds \ ActionPks :
            /\ actions' = actions \cup
                    {[id |-> pk, user |-> user, when |-> clock \div TicksPerSecond]}
            /\ response' = [ApiRespond("actions", "POST", 201) EXCEPT
                    !.pk = pk, !.serializer = "ActionSerializer"]
       /\ UNCHANGED <<users, profile, request_user, session, clock>>

\* PUT and PATCH /api/actions/<pk>
ActionsUpdate(method, pk, user) ==
    \/ PermissionDenied("actions", method)
    \/ /\ has_permission(method, request_user)
       /\ user \in users
       /\ IF ActionGet(pk) # {} THEN
              /\ actions' = {IF a.id = pk THEN [a EXCEPT !.user = user] ELSE a : a \in actions}
              /\ response' = [ApiRespond("actions", method, 200) EXCEPT
                      !.pk = pk, !.serializer = "ActionSerializer"]
          ELSE IF method = "PUT" THEN
              /\ actions' = actions \cup
                      {[id |-> pk, user |-> user, when |-> clock \div TicksPerSecond]}
              /\ response' = [ApiRespond("actions", method, 201) EXCEPT
                      !.pk = pk, !.serializer = "ActionSerializer"]
          ELSE
              /\ response' = [ApiRespond("actions", method, 404) EXCEPT !.pk = pk]
              /\ UNCHANGED actions
       /\ UNCHANGED <<users, profile, request_user, session, clock>>

\* DELETE /api/actions/<pk>
ActionsDestroy(pk) ==
    \/ PermissionDenied("actions", "DELETE")
    \/ /\ has_permission("DELETE", request_user)
       /\ IF ActionGet(pk) = {} THEN
              /\ response' = [ApiRespond("actions", "DELETE", 404) EXCEPT !.pk = pk]
              /\ UNCHANGED actions
          ELSE
              /\ actions' = actions \ ActionGet(pk)
              /\ response' = [ApiRespond("actions", "DELETE", 204) EXCEPT !.pk = pk]
       /\ UNCHANGED <<users, profile, request_user, session, clock>>

---------------------------------------------------------------------------
(* The environment: time passes. *)

Tick ==
    /\ clock < Epoch * TicksPerSecond + MaxTicks
    /\ clock' = clock + 1
    /\ UNCHANGED <<users, profile, actions, request_user, session, response>>

---------------------------------------------------------------------------
(* The states a request can find. *)

\* the timestamps the stored actions carry: one before the 30-day window,
\* one inside it
OldTime == Epoch - (WindowDays + 1) * 86400
RecentTime == Epoch - 86400

\* the stored action with primary key i: users 1, 2, ... own two actions
\* each, an old one and a recent one
ActionRow(i) ==
    [id |-> i,
     user |-> (((i - 1) \div 2) % MaxUsers) + 1,
     when |-> IF i % 2 = 1 THEN OldTime ELSE RecentTime]

\* every table that holds some of these rows
ActionTables == SUBSET {ActionRow(i) : i \in ActionIds}

\* every assignment of the users to a neighborhood or to no profile
ProfileTables == [UserIds -> NeighborhoodTags \cup {NoProfile}]

\* the query strings of /api/users: no neighborhood parameter, one, several,
\* an unknown identifier
NeighborhoodParams ==
    {<<>>, <<MaxNeighborhoods + 1>>}
        \cup {<<t>> : t \in NeighborhoodTags}
        \cup {<<t, MaxNeighborhoods>> : t \in NeighborhoodTags \ {MaxNeighborhoods}}

TypeOK ==
    /\ users \subseteq UserIds
    /\ profile \in ProfileTables
    /\ \A u \in UserIds \ users : profile[u] = NoProfile
    /\ \A a \in actions : a.user \in users
    /\ \A a, b \in actions : a.id = b.id => a = b
    /\ request_user \in users \cup {AnonymousUser}
    /\ session.neighborhood \in NeighborhoodTags \cup {None}
    /\ session.auth_provider \in Providers \cup {""}

\* the app shell and the sitemap, over every database and every caller
InitShell ==
    /\ users = UserIds
    /\ profile \in ProfileTables
    /\ actions \in ActionTables
    /\ request_user \in users \cup {AnonymousUser}
    /\ session = [neighborhood |-> None, auth_provider |-> "twitter"]
    /\ clock = Epoch * TicksPerSecond
    /\ response = NoResponse

NextShell == AppViewGet \/ SiteMapViewGet \/ Tick

SpecShell == InitShell /\ [][NextShell]_vars

\* the neighborhood-choice form, over every session
InitForm ==
    /\ users = UserIds
    /\ profile = [u \in UserIds |-> NoProfile]
    /\ actions = {}
    /\ request_user = AnonymousUser
    /\ session \in [neighborhood : NeighborhoodTags \cup {None},
                    auth_provider : Providers \cup {""}]
    /\ clock = Epoch * TicksPerSecond
    /\ response = NoResponse

NextForm ==
    \/ \E query \in Providers \cup {""} : ChooseNeighborhoodGet(query)
    \/ \E neighborhood \in NeighborhoodTags \cup {None, MaxNeighborhoods + 1},
          auth_provider \in Providers \cup {""},
          query \in Providers \cup {""} :
            ChooseNeighborhoodPost(neighborhood, auth_provider, query)

SpecForm == InitForm /\ [][NextForm]_vars

\* the read requests of the users endpoint, over every profile assignment
\* and every caller; the actions are all stored or none is
InitUsers ==
    /\ users = UserIds
    /\ profile \in ProfileTables
    /\ actions \in {{}, {ActionRow(i) : i \in ActionIds}}
    /\ request_user \in users \cup {AnonymousUser}
    /\ session = EmptySession
    /\ clock = Epoch * TicksPerSecond
    /\ response = NoResponse

NextUsers ==
    \/ \E neighborhoods \in NeighborhoodParams : UsersList(neighborhoods)
    \/ \E pk \in UserIds, neighborhoods \in NeighborhoodParams : UsersRetrieve(pk, neighborhoods)

SpecUsers == InitUsers /\ [][NextUsers]_vars

\* the two REST endpoints, reads and writes, from one database: the last
\* user has no profile, the others are spread over the neighborhoods, and
\* the first action is stored
Init ==
    /\ users = UserIds
    /\ profile = [u \in UserIds |->
            IF u = MaxUsers THEN NoProfile ELSE ((u - 1) % MaxNeighborhoods) + 1]
    /\ actions = {ActionRow(1)}
    /\ request_user \in users \cup {AnonymousUser}
    /\ session = EmptySession
    /\ clock = Epoch * TicksPerSecond
    /\ response = NoResponse

NextApi ==
    \/ UsersList(<<>>)
    \/ \E pk \in UserIds : UsersRetrieve(pk, <<>>)
    \/ UsersCreate
    \/ \E method \in {"PUT", "PATCH"}, pk \in UserIds : UsersUpdate(method, pk)
    \/ \E pk \in UserIds : UsersDestroy(pk)
    \/ ActionsList
    \/ \E pk \in ActionIds : ActionsRetrieve(pk)
    \/ \E user \in UserIds : ActionsCreate(user)
    \/ \E method \in {"PUT", "PATCH"}, pk \in ActionIds, user \in UserIds :
            ActionsUpdate(method, pk, user)
    \/ \E pk \in ActionIds : ActionsDestroy(pk)

SpecApi == Init /\ [][NextApi]_vars

\* every handler of the module
Next ==
    \/ AppViewGet
    \/ SiteMapViewGet
    \/ \E query \in Providers \cup {""} : ChooseNeighborhoodGet(query)
    \/ \E neighborhood \in NeighborhoodTags \cup {None, MaxNeighborhoods + 1},
          auth_provider \in Providers \cup {""},
          query \in Providers \cup {""} :
            ChooseNeighborhoodPost(neighborhood, auth_provider, query)
    \/ NextApi
    \/ Tick

Spec == Init /\ [][Next]_vars

---------------------------------------------------------------------------
(* Properties. *)

AppResponse == response.view = "app"

\* the caller of the last request was logged in and had a profile
CallerProfiled == is_authenticated(response.user) /\ HasProfile(response.user)

\* the caller of the last request was logged in and had no profile
CallerProfileless == is_authenticated(response.user) /\ ~HasProfile(response.user)

\* the fields of the SSO string of the last app-shell response
SsoFields == Split(response.disqus_sso_auth)

\* the identity payload, read back out of the SSO string
SsoPayloadText == b64decode(SsoFields[1])

SsoValuesOf(avatar_key) ==
    {<<"id", str(response.user) \o DISQUS_ACCOUNT_UNIQUIFIER>>,
     <<"username", username(response.user)>>,
     <<"email", email(response.user)>>,
     <<avatar_key, avatar_url(response.user)>>}

\* C1, as claimed: for an authenticated caller with a profile the payload
\* that is base64-encoded is a JSON object with exactly the keys id,
\* username, email and avatar_url, holding the user id followed by the
\* uniquifier, the username, the email and the profile's avatar URL.
C1_AsClaimed ==
    (AppResponse /\ response.status = 200 /\ CallerProfiled) =>
        /\ Keys(response.disqus_sso_data) = {"id", "username", "email", "avatar_url"}
        /\ SsoPayloadText = json_dumps(SsoValuesOf("avatar_url"))

\* C1, amended: the same with the fourth key named avatar (its value is the
\* profile's avatar_url): the keys are exactly id, username, email, avatar.
C1_PayloadKeys ==
    (AppResponse /\ response.status = 200 /\ CallerProfiled) =>
        /\ Keys(response.disqus_sso_data) = {"id", "username", "email", "avatar"}
        /\ response.disqus_sso_data = SsoValuesOf("avatar")
        /\ SsoPayloadText = json_dumps(SsoValuesOf("avatar"))

C1_Witness == AppResponse /\ response.status = 200 /\ CallerProfiled

\* the neighborhood rows of the last app-shell or sitemap response
NeighborhoodRows ==
    LET listing == (CHOOSE d \in response.neighborhood_data : TRUE).instance
    IN  {listing[i] : i \in DOMAIN listing}

\* the stored actions of user u inside the 30 days that end at time now
InWindow(u, now) ==
    {a \in UserActions(u) : a.when >= now - WindowDays * 86400}

\* C2: in the neighborhood listing every user carries exactly its actions of
\* the trailing 30 days and no older one (a user with none of them carries
\* the empty set).
C2_TrailingWindow ==
    (response.view \in {"app", "sitemap"} /\ response.status = 200) =>
        \A n \in NeighborhoodRows : \A p \in n.profiles :
            p.user.actions = InWindow(p.user.pk, response.time)

\* C3: the app shell, called by a logged-in user without a profile, returns
\* its context without raising, the SSO payload is the empty object, and the
\* caller is logged out (the session flushed) when it returns.
C3_ProfilelessLoggedOut ==
    (AppResponse /\ is_authenticated(response.user) /\ ~HasProfile(response.user)) =>
        /\ response.status = 200
        /\ response.disqus_sso_data = {}
        /\ SsoPayloadText = <<123, 125>>
        /\ request_user = AnonymousUser
        /\ session = EmptySession

C3_Witness ==
    /\ AppResponse /\ CallerProfileless
    /\ response.status = 200
    /\ request_user = AnonymousUser

\* C4: get_current_user_data never raises; it is the empty object for every
\* caller without a profile, logged in or not, and for a logged-in caller
\* with a profile it is the LoggedInUserSerializer view of the caller's own
\* row of the user listing.
C4_CurrentUserData ==
    AppResponse =>
        /\ response.status = 200
        /\ ~CallerProfiled => response.current_user_data = {}
        /\ CallerProfiled =>
                response.current_user_data =
                    {[serializer |-> "LoggedInUserSerializer",
                      instance |-> UserRow(response.user)]}

C4_Witness ==
    /\ AppResponse /\ CallerProfiled
    /\ response.current_user_data # {}
    /\ UserActions(response.user) # {}

\* C5: the SSO string is "message signature timestamp": three fields, the
\* third the Unix seconds of the call, the first the base64 message, the
\* second the hex HMAC (keyed with the secret) of the first, a space and the
\* third, so that a verifier recomputing it from fields one and three gets
\* field two.
C5_SignedString ==
    (AppResponse /\ response.status = 200) =>
        /\ Len(SsoFields) = 3
        /\ SsoFields[1] = b64encode(json_dumps(response.disqus_sso_data))
        /\ SsoFields[3] = str(response.time)
        /\ SsoFields[2] =
                hmac_hexdigest(DISQUS_SECRET_KEY, SsoFields[1] \o Space \o SsoFields[3])

C5_Witness ==
    /\ AppResponse /\ response.status = 200
    /\ response.time > Epoch
    /\ response.disqus_sso_data # {}

\* the last response is a single user record returned by the users endpoint
UserDetail ==
    /\ response.view = "users"
    /\ response.status = 200
    /\ response.pk # None

\* C6: when the users endpoint returns a user record, the self serializer is
\* chosen exactly when the record is the caller's own; another user's record,
\* and any record asked for by an anonymous caller, get the public one.
C6_SelfSerializer ==
    UserDetail =>
        /\ response.serializer = "LoggedInUserSerializer" <=> response.pk = response.user
        /\ response.serializer \in {"LoggedInUserSerializer", "UserSerializer"}
        /\ ~is_authenticated(response.user) => response.serializer = "UserSerializer"

C6_Witness ==
    /\ UserDetail
    /\ is_authenticated(response.user)
    /\ response.pk = response.user
    /\ response.serializer = "LoggedInUserSerializer"

ApiResponse == response.view \in {"users", "actions"}

\* the record a detail request named is in the listing its endpoint serves
Listed ==
    IF response.view = "users"
    THEN QuerysetGet(get_queryset(response.params), response.pk) # {}
    ELSE ActionGet(response.pk) # {}

\* C7: on both endpoints a write by an anonymous caller is refused with an
\* authorization error and the stored users and actions are what they were;
\* a read by an anonymous caller is served (a list always, a detail whenever
\* the record is in the listing).
C7_AnonymousReadOnly ==
    (ApiResponse /\ ~is_authenticated(response.user)) =>
        /\ response.method \in WriteMethods =>
                response.status = 403 /\ response.db_before = DB
        /\ response.method = "GET" =>
                /\ response.status \in {200, 404}
                /\ response.status = 404 <=> (response.pk # None /\ ~Listed)
                /\ response.db_before = DB

C7_Witness ==
    /\ ApiResponse /\ ~is_authenticated(response.user)
    /\ response.method = "POST"
    /\ response.status = 403
    /\ users # UserIds

\* C8: a valid submission of the choice form stores the neighborhood under
\* the session key neighborhood, records the submitted provider and redirects
\* to that provider's continuation endpoint; an invalid one renders the form
\* again with errors and leaves the session keys as they were.
C8_ChoiceForm ==
    (response.view = "choose" /\ response.method = "POST") =>
        IF form_is_valid(response.form.neighborhood, response.form.auth_provider) THEN
            /\ response.status = 302
            /\ session.neighborhood = response.form.neighborhood
            /\ response.self_auth_provider = response.form.auth_provider
            /\ response.redirect = <<"socialauth_complete", response.form.auth_provider>>
        ELSE
            /\ response.status = 200
            /\ response.form_errors
            /\ <<session>> = response.db_before

C8_Witness ==
    /\ response.view = "choose" /\ response.method = "POST"
    /\ response.status = 302
    /\ session.auth_provider # response.form.auth_provider
    /\ <<session>> # response.db_before

\* the last response is the unfiltered user listing
UserListing ==
    /\ response.view = "users" /\ response.status = 200
    /\ response.pk = None

\* C9: the user listing holds exactly the users that have a profile, whatever
\* the number of their actions, each once and each with all of its actions.
C9_UserListing ==
    (UserListing /\ response.params = <<>>) =>
        /\ {r.pk : r \in response.results} = {u \in users : profile[u] # NoProfile}
        /\ Cardinality(response.results) = Cardinality({r.pk : r \in response.results})
        /\ \A r \in response.results : r.actions = {a \in actions : a.user = r.pk}

C9_Witness ==
    /\ UserListing /\ response.params = <<>>
    /\ \E u \in users : profile[u] = NoProfile
    /\ \E r \in response.results : r.actions = {}
    /\ actions # {}

\* C10: with neighborhood parameters the users endpoint lists exactly the
\* profiled users whose profile's neighborhood is one of them; with none it
\* lists the whole user listing.
C10_NeighborhoodFilter ==
    UserListing =>
        /\ response.params # <<>> =>
                {r.pk : r \in response.results} =
                    {u \in users : profile[u] # NoProfile /\ profile[u] \in Range(response.params)}
        /\ response.params = <<>> => response.results = {UserRow(u) : u \in {v \in users : profile[v] # NoProfile}}
        /\ \A r \in response.results : r = UserRow(r.pk)

C10_Witness ==
    /\ UserListing
    /\ Len(response.params) = 2
    /\ Cardinality({r.profile.neighborhood : r \in response.results}) = 2

===========================================================================
